---- MODULE Spec2Model ----
(***************************************************************************)
(* git-black: rewrites an uncommitted reformat into one commit per set of  *)
(* origin commits.  The model covers the line mapper and hunk blamer       *)
(* (HunkBlamer), the offset-correcting Patcher and the commit orchestrator *)
(* (GitBlack.commit_changes / GitBlack._commit) of                         *)
(* src/src/git_black/__init__.py, over an abstract git repository: HEAD,   *)
(* the commit objects, the object database, the on-disk index and the      *)
(* working tree.                                                           *)
(*                                                                         *)
(* A line of a file is a token (a number); a blob is the sequence of its   *)
(* lines.  A blob id is the blob itself (content addressing), a tree id is *)
(* the tree itself, a commit id is the commit's position in the object     *)
(* database.                                                               *)
(***************************************************************************)
EXTENDS Integers, Sequences, FiniteSets, TLC

(***************************************************************************)
(* Bounds of the model.                                                    *)
(***************************************************************************)
\* longest HEAD version of the file of the Patcher specification, in lines
MaxLen == 3
\* longest working-tree version of that file, in lines
MaxNew == 3
\* number of commits in the history below the first HEAD
NumOrigins == 2

(***************************************************************************)
(* Sequence helpers (Python list semantics, 0-based where the code is).    *)
(***************************************************************************)
Min(a, b) == IF a <= b THEN a ELSE b

Max(a, b) == IF a >= b THEN a ELSE b

\* tuple(range(a, b))
Range(a, b) == [k \in 1..Max(0, b - a) |-> a + k - 1]

Elems(s) == {s[k] : k \in 1..Len(s)}

\* a slice bound of Python: negative counts from the end, then clamp
SliceIdx(k, len) == IF k < 0 THEN Max(0, len + k) ELSE Min(k, len)

\* s[i:j] = new
SliceAssign(s, i, j, new) ==
    LET lo == SliceIdx(i, Len(s))
        hi == Max(lo, SliceIdx(j, Len(s)))
    IN  SubSeq(s, 1, lo) \o new \o SubSeq(s, hi + 1, Len(s))

\* min(t, default=0) of a tuple of numbers
MinDefault0(t) ==
    IF Len(t) = 0 THEN 0
    ELSE CHOOSE m \in Elems(t) : \A x \in Elems(t) : m <= x

\* d[k] = v on a dict kept as the sequence of its <<key, value>> items
DictSet(d, k, v) ==
    IF \E n \in 1..Len(d) : d[n][1] = k
    THEN [n \in 1..Len(d) |-> IF d[n][1] = k THEN <<k, v>> ELSE d[n]]
    ELSE Append(d, <<k, v>>)

(***************************************************************************)
(* Delta                                                                   *)
(***************************************************************************)
Delta(filename, old_start, old_lines, old_length, new_start, new_length, new_lines) ==
    [filename |-> filename, old_start |-> old_start, old_lines |-> old_lines,
     old_length |-> old_length, new_start |-> new_start,
     new_length |-> new_length, new_lines |-> new_lines]

\* Delta.offset
offset(delta) == delta.new_length - delta.old_length

\* the raw_content of the lines of a hunk that carry the origin marker o
LinesWithOrigin(hunk, o) ==
    LET RECURSIVE pick(_)
        pick(k) ==
            IF k > Len(hunk.lines) THEN <<>>
            ELSE (IF hunk.lines[k].origin = o
                  THEN <<hunk.lines[k].raw_content>> ELSE <<>>) \o pick(k + 1)
    IN  pick(1)

\* Delta.from_hunk
from_hunk(hunk, filename) ==
    Delta(filename, hunk.old_start, LinesWithOrigin(hunk, "-"), hunk.old_lines,
          hunk.new_start, hunk.new_lines, LinesWithOrigin(hunk, "+"))

(***************************************************************************)
(* HunkBlamer._map_lines: the dict, as the sequence of its items, that     *)
(* maps tuples of 0-based source line numbers to tuples of 0-based target  *)
(* line numbers.                                                           *)
(***************************************************************************)
\* mutant: the tail of a collapsing hunk starts one source line too late
map_lines_short_tail(delta) ==
    LET O == delta.old_length
        N == delta.new_length
        RECURSIVE loop(_)
        loop(k) == IF k < 0 THEN <<>> ELSE DictSet(loop(k - 1), <<k>>, <<k>>)
        paired == loop(Min(O, N) - 2)
    IN  IF O = 0 THEN << << <<>>, Range(0, N) >> >>
        ELSE IF N = 0 THEN << << Range(0, O), <<>> >> >>
        ELSE IF O >= N
             THEN DictSet(paired, Range(N, O), <<N - 1>>)
             ELSE DictSet(paired, <<O - 1>>, Range(O - 1, N))

_map_lines(delta) ==
    LET O == delta.old_length
        N == delta.new_length
        RECURSIVE loop(_)
        \* for i in range(min(O, N) - 1): result[(i,)] = (i,)
        loop(k) == IF k < 0 THEN <<>> ELSE DictSet(loop(k - 1), <<k>>, <<k>>)
        paired == loop(Min(O, N) - 2)
    IN  IF O = 0 THEN << << <<>>, Range(0, N) >> >>
        ELSE IF N = 0 THEN << << Range(0, O), <<>> >> >>
        ELSE IF O >= N
             THEN DictSet(paired, Range(N - 1, O), <<N - 1>>)
             ELSE DictSet(paired, <<O - 1>>, Range(O - 1, N))

(***************************************************************************)
(* HunkBlamer: the blame index and the micro-deltas of a patch.            *)
(***************************************************************************)
\* bisect.bisect(a, x): the insertion point to the right of any x in a
bisect(a, x) ==
    LET RECURSIVE search(_, _)
        search(lo, hi) ==
            IF lo >= hi THEN lo
            ELSE LET mid == (lo + hi) \div 2
                 IN  IF x < a[mid + 1] THEN search(lo, mid)
                     ELSE search(mid + 1, hi)
    IN  search(0, Len(a))

\* a[idx] of a Python list: a negative idx counts from the end; out of
\* range raises IndexError
PyIndex(a, idx) ==
    LET k == IF idx < 0 THEN Len(a) + idx ELSE idx
    IN  IF k >= 0 /\ k < Len(a) THEN [ok |-> TRUE, val |-> a[k + 1]]
        ELSE [ok |-> FALSE, val |-> 0]

\* HunkBlamer._load_blame: the two parallel lists, from the blame hunks
_load_blame(blame_hunks) ==
    [_blame_starts |-> [k \in 1..Len(blame_hunks) |->
                            blame_hunks[k].final_start_line_number],
     _blame_commits |-> [k \in 1..Len(blame_hunks) |->
                            blame_hunks[k].final_commit_id]]

\* HunkBlamer._blame
_blame(hb, lineno) == PyIndex(hb._blame_commits, bisect(hb._blame_starts, lineno) - 1)

\* the micro-deltas blames() cuts one hunk delta into (its inner loop)
MicroDeltas(hd) ==
    LET m == _map_lines(hd)
    IN  [k \in 1..Len(m) |->
            LET old_linenos == m[k][1]
                new_linenos == m[k][2]
                nl == [n \in 1..Len(new_linenos) |-> hd.new_lines[new_linenos[n] + 1]]
            IN  Delta(hd.filename,
                      hd.old_start + MinDefault0(old_linenos),
                      [n \in 1..Len(old_linenos) |-> hd.old_lines[old_linenos[n] + 1]],
                      Len(old_linenos),
                      hd.new_start + MinDefault0(new_linenos),
                      Len(nl),
                      nl)]

\* mutant: a delta with no old lines looks up the line behind its old_start
BlameRange_line_below(delta) ==
    IF delta.old_length = 0 THEN {delta.old_start + 1}
    ELSE delta.old_start .. (delta.old_start + delta.old_length - 1)

\* the lines blames() looks up for one micro-delta
BlameRange(delta) == delta.old_start .. (delta.old_start + Max(1, delta.old_length) - 1)

\* HunkBlamer.blames: [ok, blames]; ok is FALSE when a lookup raises
blames(hb, hunks, filename) ==
    LET RECURSIVE cat(_)
        cat(k) == IF k > Len(hunks) THEN <<>>
                  ELSE MicroDeltas(from_hunk(hunks[k], filename)) \o cat(k + 1)
        deltas == cat(1)
    IN  [ok |-> \A k \in 1..Len(deltas) :
                    \A line \in BlameRange(deltas[k]) : _blame(hb, line).ok,
         blames |-> [k \in 1..Len(deltas) |->
                        [delta |-> deltas[k],
                         commits |-> {_blame(hb, line).val :
                                         line \in BlameRange(deltas[k])}]]]

(***************************************************************************)
(* Patcher                                                                 *)
(***************************************************************************)
\* Patcher.__init__ on the lines _load_lines read from HEAD
Patcher(lines) == [_lines |-> lines, _offsets |-> <<>>, _applied |-> {}]

\* the sum of the offsets recorded at positions before old_start
OffsetsBefore(offsets, old_start) ==
    LET RECURSIVE sum(_)
        sum(S) == IF S = {} THEN 0
                  ELSE LET pos == CHOOSE p \in S : TRUE
                       IN  offsets[pos] + sum(S \ {pos})
    IN  sum({pos \in DOMAIN offsets : old_start > pos})

\* mutant: no early return for an old_start that was applied already
apply_no_guard(p, delta) ==
    LET shifted == delta.old_start + OffsetsBefore(p._offsets, delta.old_start)
        old_start == IF delta.old_length = 0 THEN shifted + 1 ELSE shifted
        i == old_start - 1
        j == i + delta.old_length
    IN  [_lines |-> SliceAssign(p._lines, i, j, delta.new_lines),
         _offsets |-> [pos \in (DOMAIN p._offsets) \cup {delta.old_start} |->
                          IF pos = delta.old_start THEN offset(delta)
                          ELSE p._offsets[pos]],
         _applied |-> p._applied \cup {delta.old_start}]

\* mutant: the offsets of later positions shift the delta as well
apply_all_offsets(p, delta) ==
    IF delta.old_start \in p._applied THEN p
    ELSE
    LET shifted == delta.old_start + OffsetsBefore(p._offsets, delta.old_start + 1000)
        old_start == IF delta.old_length = 0 THEN shifted + 1 ELSE shifted
        i == old_start - 1
        j == i + delta.old_length
    IN  [_lines |-> SliceAssign(p._lines, i, j, delta.new_lines),
         _offsets |-> [pos \in (DOMAIN p._offsets) \cup {delta.old_start} |->
                          IF pos = delta.old_start THEN offset(delta)
                          ELSE p._offsets[pos]],
         _applied |-> p._applied \cup {delta.old_start}]

\* mutant: a pure insertion is not moved below its anchor line
apply_no_insert_shift(p, delta) ==
    IF delta.old_start \in p._applied THEN p
    ELSE
    LET old_start == delta.old_start + OffsetsBefore(p._offsets, delta.old_start)
        i == old_start - 1
        j == i + delta.old_length
    IN  [_lines |-> SliceAssign(p._lines, i, j, delta.new_lines),
         _offsets |-> [pos \in (DOMAIN p._offsets) \cup {delta.old_start} |->
                          IF pos = delta.old_start THEN offset(delta)
                          ELSE p._offsets[pos]],
         _applied |-> p._applied \cup {delta.old_start}]

\* Patcher.apply: the Patcher after apply(delta)
apply(p, delta) ==
    IF delta.old_start \in p._applied THEN p
    ELSE
    LET shifted == delta.old_start + OffsetsBefore(p._offsets, delta.old_start)
        old_start == IF delta.old_length = 0 THEN shifted + 1 ELSE shifted
        i == old_start - 1
        j == i + delta.old_length
    IN  [_lines |-> SliceAssign(p._lines, i, j, delta.new_lines),
         _offsets |-> [pos \in (DOMAIN p._offsets) \cup {delta.old_start} |->
                          IF pos = delta.old_start THEN offset(delta)
                          ELSE p._offsets[pos]],
         _applied |-> p._applied \cup {delta.old_start}]

\* Patcher.content: b"".join(lines); a blob is the sequence of its lines
content(p) == p._lines

(***************************************************************************)
(* The repository (pygit2.Repository) as the program sees it.              *)
(***************************************************************************)
\* the paths of the repository, in the order the diff lists them
FileOrder == <<"a", "b">>

Files == Elems(FileOrder)

\* 0o100644, the mode _commit gives every index entry it writes
GIT_FILEMODE_BLOB == 33188

\* 0o100755
ExecutableMode == GIT_FILEMODE_BLOB + 73

\* 0o120000
LinkMode == 10 * 4096

\* the object type bits of a file mode
FileType(mode) == mode \div 4096

\* no entry for a path (in a tree, in the index, in the working tree)
None == [blob |-> <<>>, mode |-> 0]

IndexEntry(blob_id, mode) == [blob |-> blob_id, mode |-> mode]

VARIABLES
    commits,        \* object database: the commit objects, a commit id is its position
    head,           \* the commit id HEAD points to
    blobs,          \* object database: the blobs create_blob wrote
    trees,          \* object database: the trees write_tree wrote
    index,          \* the index file on disk: path -> entry
    workTree,       \* the working tree: path -> file
    pc,             \* where the run is
    memIndex,       \* repo.index, the index object in the memory of the run
    patchers,       \* GitBlack.patchers: path -> Patcher
    grouped_deltas, \* the groups commit_changes still has to commit, first is current
    filenames,      \* _commit: the touched paths whose blob is not yet in the index
    blob_id,        \* _commit: <<path, blob>> between create_blob and index.add
    tree,           \* _commit: the tree index.write_tree() returned
    run,            \* history: [n, startHead, startLen, interrupted, modified, blames,
                    \*           groups]
    deltaBlames,    \* Patcher specification: what blames() returned
    hunkMaps,       \* Patcher specification: each hunk delta with its _map_lines
    trace,          \* Patcher specification: the deltas applied, in order
    reapplied       \* Patcher specification: apply() met an old_start already applied

repoVars == <<commits, head, blobs, trees, index>>

procVars == <<memIndex, patchers, grouped_deltas, filenames, blob_id, tree>>

harnessVars == <<deltaBlames, hunkMaps, trace, reapplied>>

vars == <<commits, head, blobs, trees, index, workTree, pc, memIndex, patchers,
          grouped_deltas, filenames, blob_id, tree, run, deltaBlames, hunkMaps, trace,
          reapplied>>

\* repo.head.peel().tree
HeadTree == commits[head].tree

(***************************************************************************)
(* repo.status(): the status flags of a path, from HEAD, index and         *)
(* working tree.                                                           *)
(***************************************************************************)
StatusFlags(h, i, w) ==
    (IF h = None /\ i # None THEN {"GIT_STATUS_INDEX_NEW"} ELSE {})
    \cup (IF h # None /\ i = None THEN {"GIT_STATUS_INDEX_DELETED"} ELSE {})
    \cup (IF h # None /\ i # None /\ h # i
          THEN (IF FileType(h.mode) # FileType(i.mode)
                THEN {"GIT_STATUS_INDEX_TYPECHANGE"}
                ELSE {"GIT_STATUS_INDEX_MODIFIED"})
          ELSE {})
    \cup (IF i = None /\ w # None THEN {"GIT_STATUS_WT_NEW"} ELSE {})
    \cup (IF i # None /\ w = None THEN {"GIT_STATUS_WT_DELETED"} ELSE {})
    \cup (IF i # None /\ w # None /\ i # w
          THEN (IF FileType(i.mode) # FileType(w.mode)
                THEN {"GIT_STATUS_WT_TYPECHANGE"}
                ELSE {"GIT_STATUS_WT_MODIFIED"})
          ELSE {})

\* mutant: the mask misses the staged deletions
index_statuses_no_deleted ==
    {"GIT_STATUS_INDEX_NEW", "GIT_STATUS_INDEX_MODIFIED",
     "GIT_STATUS_INDEX_RENAMED", "GIT_STATUS_INDEX_TYPECHANGE"}

index_statuses ==
    {"GIT_STATUS_INDEX_NEW", "GIT_STATUS_INDEX_MODIFIED", "GIT_STATUS_INDEX_DELETED",
     "GIT_STATUS_INDEX_RENAMED", "GIT_STATUS_INDEX_TYPECHANGE"}

(***************************************************************************)
(* repo.diff(context_lines=0): the patch of one path, index to working     *)
(* tree.  Lines are compared as the diff engine does, and a hunk is a      *)
(* maximal run of removed and added lines between two kept lines.          *)
(***************************************************************************)
\* the length of the run of lines of s after position i that t does not hold
RunNotIn(s, i, t) ==
    LET RECURSIVE len(_)
        len(k) == IF i + k + 1 <= Len(s) /\ s[i + k + 1] \notin Elems(t)
                  THEN len(k + 1) ELSE k
    IN  len(0)

DiffHunk(old, new, i, O, j, N) ==
    [old_start |-> IF O = 0 THEN i ELSE i + 1,
     old_lines |-> O,
     new_start |-> IF N = 0 THEN j ELSE j + 1,
     new_lines |-> N,
     lines |-> [k \in 1..(O + N) |->
                   IF k <= O THEN [origin |-> "-", raw_content |-> old[i + k]]
                   ELSE [origin |-> "+", raw_content |-> new[j + k - O]]]]

\* the hunks of the zero-context diff of two versions in which no line
\* occurs twice and the common lines keep their order
Hunks(old, new) ==
    LET RECURSIVE scan(_, _)
        scan(i, j) ==
            IF i >= Len(old) /\ j >= Len(new) THEN <<>>
            ELSE IF i < Len(old) /\ j < Len(new) /\ old[i + 1] = new[j + 1]
            THEN scan(i + 1, j + 1)
            ELSE LET O == RunNotIn(old, i, new)
                     N == RunNotIn(new, j, old)
                 IN  <<DiffHunk(old, new, i, O, j, N)>> \o scan(i + O, j + N)
    IN  scan(0, 0)

\* patch.delta.status of the patch of one path
DeltaStatus(i, w) ==
    IF i = None \/ w = None THEN (IF i = w THEN "UNMODIFIED"
                                  ELSE IF w = None THEN "DELETED" ELSE "UNTRACKED")
    ELSE IF i = w THEN "UNMODIFIED"
    ELSE IF FileType(i.mode) # FileType(w.mode) THEN "TYPECHANGE"
    ELSE "MODIFIED"

(***************************************************************************)
(* repo.blame(path): the runs of consecutive HEAD lines with one origin.   *)
(* A line belongs to the oldest ancestor of HEAD whose version of the file *)
(* holds it.                                                               *)
(***************************************************************************)
Ancestors(c) ==
    LET RECURSIVE anc(_)
        anc(x) == {x} \cup UNION {anc(commits[x].parents[k]) :
                                     k \in 1..Len(commits[x].parents)}
    IN  anc(c)

LineOrigin(path, line) ==
    LET holders == {c \in Ancestors(head) : line \in Elems(commits[c].tree[path].blob)}
    IN  CHOOSE c \in holders : \A d \in holders : c <= d

BlameHunks(path) ==
    LET lines == HeadTree[path].blob
        at(k) == LineOrigin(path, lines[k])
        RECURSIVE runs(_)
        runs(k) ==
            IF k > Len(lines) THEN <<>>
            ELSE (IF k = 1 \/ at(k) # at(k - 1)
                  THEN <<[final_start_line_number |-> k, final_commit_id |-> at(k)]>>
                  ELSE <<>>) \o runs(k + 1)
    IN  runs(1)

(***************************************************************************)
(* The repositories the model starts from.  A tracked file is given by the *)
(* number n of its lines at HEAD (the tokens 1..n), the commit each of     *)
(* them came in with, its mode, and its working-tree version: a sequence   *)
(* in which k > 0 keeps HEAD line k and 0 is a new line.                   *)
(***************************************************************************)
OriginIds == 1..NumOrigins

Increasing(p) == \A x, y \in 1..Len(p) : (x < y /\ p[x] > 0 /\ p[y] > 0) => p[x] < p[y]

WorkPatterns(n, maxNew) ==
    {p \in UNION {[1..L -> 0..n] : L \in 0..maxNew} : Increasing(p)}

WorkBlob(p) == [k \in 1..Len(p) |-> IF p[k] = 0 THEN 100 + k ELSE p[k]]

FileCases(maxLen, maxNew, modes) ==
    UNION {[n : {n}, origins : [1..n -> OriginIds], mode : modes,
            work : WorkPatterns(n, maxNew)] : n \in 0..maxLen}

\* a path that HEAD, the index and the working tree do not hold
Absent == [n |-> 0, origins |-> <<>>, mode |-> 0, work |-> <<>>]

\* the file of a case in the commit c of the history
CaseEntryAt(case, c) ==
    IF case = Absent THEN None
    ELSE [blob |-> SelectSeq([k \in 1..case.n |-> k], LAMBDA k : case.origins[k] <= c),
          mode |-> case.mode]

CaseWorkFile(case) ==
    IF case = Absent THEN None
    ELSE [blob |-> WorkBlob(case.work), mode |-> case.mode]

\* the commit_time_offset, in minutes, of the commits of the history
OriginOffset(c) == IF c = 1 THEN 1 ELSE 0

Signature(name, time, off) == [name |-> name, time |-> time, offset |-> off]

\* the history: a chain of NumOrigins commits, the last one is HEAD
History(cases, times) ==
    [c \in OriginIds |->
        [parents |-> IF c = 1 THEN <<>> ELSE <<c - 1>>,
         tree |-> [f \in Files |-> CaseEntryAt(cases[f], c)],
         author |-> Signature(c, times[c] - 100, OriginOffset(c)),
         committer |-> Signature(c, times[c], OriginOffset(c)),
         commit_time |-> times[c],
         commit_time_offset |-> OriginOffset(c),
         message |-> [subject |-> c, originals |-> <<>>]]]

InitRepo(cases, times, staged) ==
    /\ commits = History(cases, times)
    /\ head = NumOrigins
    /\ blobs = {}
    /\ trees = {}
    /\ index = [f \in Files |-> IF f \in DOMAIN staged THEN staged[f]
                                ELSE CaseEntryAt(cases[f], NumOrigins)]
    /\ workTree = [f \in Files |-> CaseWorkFile(cases[f])]
    /\ memIndex = <<>>
    /\ patchers = <<>>
    /\ grouped_deltas = <<>>
    /\ filenames = {}
    /\ blob_id = <<>>
    /\ tree = <<>>
    /\ run = [n |-> 0, startHead |-> NumOrigins, startLen |-> NumOrigins,
              interrupted |-> FALSE, modified |-> {}, blames |-> {}, groups |-> <<>>]
    /\ deltaBlames = <<>>
    /\ hunkMaps = <<>>
    /\ trace = <<>>
    /\ reapplied = FALSE

(***************************************************************************)
(* The Patcher specification: one modified file; blames() cuts its diff    *)
(* against HEAD into micro-deltas and a Patcher on the HEAD version gets   *)
(* them applied in any order, any number of times.                         *)
(***************************************************************************)
InitPatcher ==
    /\ pc = "harness"
    /\ \E case \in FileCases(MaxLen, MaxNew, {GIT_FILEMODE_BLOB}) :
          /\ WorkBlob(case.work) # [k \in 1..case.n |-> k]
          /\ InitRepo([f \in Files |-> IF f = "a" THEN case ELSE Absent],
                      [c \in OriginIds |-> 1000 + c], <<>>)

\* patch.hunks of the patch of a path
PatchHunks(path) == Hunks(index[path].blob, workTree[path].blob)

\* Patcher._load_lines
_load_lines(path) == HeadTree[path].blob

\* Patcher(repo, "a"), HunkBlamer(repo, patch).blames()
HarnessBlames ==
    /\ pc = "harness"
    /\ LET hb == _load_blame(BlameHunks("a"))
           res == blames(hb, PatchHunks("a"), "a")
       IN  /\ pc' = IF res.ok THEN "patching" ELSE "IndexError"
           /\ deltaBlames' = IF res.ok THEN res.blames ELSE <<>>
           /\ hunkMaps' = [k \in 1..Len(PatchHunks("a")) |->
                              [hd |-> from_hunk(PatchHunks("a")[k], "a"),
                               map |-> _map_lines(from_hunk(PatchHunks("a")[k], "a"))]]
    /\ patchers' = [f \in {"a"} |-> Patcher(_load_lines("a"))]
    /\ UNCHANGED <<repoVars, workTree, memIndex, grouped_deltas, filenames, blob_id,
                   tree, run, trace, reapplied>>

\* patcher.apply(delta) for the k-th micro-delta
HarnessApply(k) ==
    /\ pc = "patching"
    /\ k \in 1..Len(deltaBlames)
    /\ patchers' = [patchers EXCEPT !["a"] = apply(@, deltaBlames[k].delta)]
    /\ trace' = IF deltaBlames[k].delta.old_start \in patchers["a"]._applied
                THEN trace ELSE Append(trace, k)
    /\ reapplied' = (reapplied \/ deltaBlames[k].delta.old_start \in patchers["a"]._applied)
    /\ UNCHANGED <<repoVars, workTree, pc, memIndex, grouped_deltas, filenames,
                   blob_id, tree, run, deltaBlames, hunkMaps>>

\* another delta at the old_start of the k-th micro-delta
Duplicate(delta) ==
    Delta(delta.filename, delta.old_start, delta.old_lines, delta.old_length,
          delta.new_start, delta.new_length + 1, Append(delta.new_lines, 999))

\* patcher.apply(delta) for a second delta with an old_start applied before
HarnessApplyDuplicate(k) ==
    /\ pc = "patching"
    /\ k \in 1..Len(deltaBlames)
    /\ deltaBlames[k].delta.old_start \in patchers["a"]._applied
    /\ patchers' = [patchers EXCEPT !["a"] = apply(@, Duplicate(deltaBlames[k].delta))]
    /\ reapplied' = TRUE
    /\ UNCHANGED <<repoVars, workTree, pc, memIndex, grouped_deltas, filenames,
                   blob_id, tree, run, deltaBlames, hunkMaps, trace>>

NextPatcher ==
    \/ HarnessBlames
    \/ \E k \in 1..(MaxLen + MaxNew) : HarnessApply(k)
    \/ \E k \in 1..(MaxLen + MaxNew) : HarnessApplyDuplicate(k)

SpecPatcher == InitPatcher /\ [][NextPatcher]_vars

(***************************************************************************)
(* GitBlack.commit_changes, phase 1: the pre-flight and the collection of  *)
(* the micro-deltas of every modified file into groups keyed by the sorted *)
(* tuple of their origin commits.                                          *)
(***************************************************************************)
\* tuple(sorted(S)) of a set of commit ids
SortedTuple(S) ==
    LET RECURSIVE srt(_)
        srt(T) == IF T = {} THEN <<>>
                  ELSE LET m == CHOOSE x \in T : \A y \in T : x <= y
                       IN  <<m>> \o srt(T \ {m})
    IN  srt(S)

\* the status check of the pre-flight: some path has a staged status
IndexNotEmpty ==
    \E f \in Files :
        StatusFlags(HeadTree[f], index[f], workTree[f]) \cap index_statuses # {}

\* mutant: every micro-delta opens a group of its own
AddToGroups_always_new(groups, key, delta) ==
    Append(groups, [commits |-> key, deltas |-> <<delta>>])

\* grouped_deltas.setdefault(commits, []).append(delta), the dict kept as
\* the sequence of its items
AddToGroups(groups, key, delta) ==
    IF \E g \in 1..Len(groups) : groups[g].commits = key
    THEN [g \in 1..Len(groups) |->
             IF groups[g].commits = key
             THEN [commits |-> key, deltas |-> Append(groups[g].deltas, delta)]
             ELSE groups[g]]
    ELSE Append(groups, [commits |-> key, deltas |-> <<delta>>])

\* the paths whose patch has the status GIT_DELTA_MODIFIED, in diff order
ModifiedPaths ==
    SelectSeq(FileOrder, LAMBDA f : DeltaStatus(index[f], workTree[f]) = "MODIFIED")

\* HunkBlamer(repo, patch).blames() for a path
BlamesOf(path) == blames(_load_blame(BlameHunks(path)), PatchHunks(path), path)

\* the loop over the DeltaBlames of one file: the groups with them added
AddBlames(groups, delta_blames) ==
    LET RECURSIVE add(_, _)
        add(n, acc) ==
            IF n > Len(delta_blames) THEN acc
            ELSE add(n + 1, AddToGroups(acc, SortedTuple(delta_blames[n].commits),
                                        delta_blames[n].delta))
    IN  add(1, groups)

\* the body of the loop over the patches, for one modified path
CollectPath(acc, f) ==
    IF HeadTree[f] = None THEN [acc EXCEPT !.error = "KeyError"]
    ELSE LET res == BlamesOf(f)
         IN  IF ~res.ok THEN [acc EXCEPT !.error = "IndexError"]
             ELSE [error |-> "",
                   patchers |-> [g \in (DOMAIN acc.patchers) \cup {f} |->
                                    IF g = f THEN Patcher(_load_lines(f))
                                    ELSE acc.patchers[g]],
                   grouped |-> AddBlames(acc.grouped, res.blames),
                   blames |-> acc.blames \cup Elems(res.blames)]

\* the loop over the patches: [error, patchers, grouped, blames]
Collect ==
    LET paths == ModifiedPaths
        RECURSIVE go(_, _)
        go(k, acc) ==
            IF k > Len(paths) \/ acc.error # "" THEN acc
            ELSE go(k + 1, CollectPath(acc, paths[k]))
    IN  go(1, [error |-> "", patchers |-> <<>>, grouped |-> <<>>, blames |-> {}])

\* number of runs of the tool
MaxRuns == 2

Idle == pc \in {"idle", "done", "crashed"}

\* GitBlack().commit_changes() up to the loop over the groups
Start ==
    /\ Idle
    /\ run.n < MaxRuns
    /\ memIndex' = index
    /\ filenames' = {}
    /\ blob_id' = <<>>
    /\ tree' = <<>>
    /\ IF IndexNotEmpty
       THEN /\ pc' = "GitIndexNotEmpty"
            /\ patchers' = <<>>
            /\ grouped_deltas' = <<>>
            /\ run' = [run EXCEPT !.n = @ + 1, !.startHead = head,
                                  !.startLen = Len(commits), !.modified = {},
                                  !.blames = {}, !.groups = <<>>]
       ELSE LET c == Collect
            IN  /\ pc' = IF c.error # "" THEN c.error
                         ELSE IF c.grouped = <<>> THEN "done" ELSE "apply"
                /\ patchers' = c.patchers
                /\ grouped_deltas' = IF c.error # "" THEN <<>> ELSE c.grouped
                /\ run' = [run EXCEPT !.n = @ + 1, !.startHead = head,
                                      !.startLen = Len(commits),
                                      !.modified = Elems(ModifiedPaths),
                                      !.blames = c.blames,
                                      !.groups = IF c.error # "" THEN <<>>
                                                 ELSE c.grouped]
    /\ UNCHANGED <<repoVars, workTree, harnessVars>>

(***************************************************************************)
(* GitBlack._commit, step by step, for the first group of grouped_deltas.  *)
(***************************************************************************)
\* mutant: the deltas of the groups still to come are applied as well
ApplyAll_every_group(ps, deltas) ==
    LET all == [g \in 1..Len(grouped_deltas) |-> grouped_deltas[g].deltas]
        RECURSIVE flat(_)
        flat(g) == IF g > Len(all) THEN <<>> ELSE all[g] \o flat(g + 1)
        ds == flat(1)
        RECURSIVE go(_, _)
        go(k, acc) ==
            IF k > Len(ds) THEN acc
            ELSE go(k + 1, [acc EXCEPT ![ds[k].filename] = apply(@, ds[k])])
    IN  go(1, ps)

\* for delta in deltas: self.patchers[delta.filename].apply(delta)
ApplyAll(ps, deltas) ==
    LET RECURSIVE go(_, _)
        go(k, acc) ==
            IF k > Len(deltas) THEN acc
            ELSE go(k + 1, [acc EXCEPT ![deltas[k].filename] = apply(@, deltas[k])])
    IN  go(1, ps)

CommitApply ==
    /\ pc = "apply"
    /\ patchers' = ApplyAll(patchers, grouped_deltas[1].deltas)
    /\ filenames' = {grouped_deltas[1].deltas[k].filename :
                        k \in 1..Len(grouped_deltas[1].deltas)}
    /\ pc' = "create_blob"
    /\ UNCHANGED <<repoVars, workTree, memIndex, grouped_deltas, blob_id, tree, run,
                   harnessVars>>

\* blob_id = self.repo.create_blob(self.patchers[filename].content())
CreateBlob(f) ==
    /\ pc = "create_blob"
    /\ f \in filenames
    /\ blobs' = blobs \cup {content(patchers[f])}
    /\ blob_id' = <<f, content(patchers[f])>>
    /\ pc' = "index_add"
    /\ UNCHANGED <<commits, head, trees, index, workTree, memIndex, patchers,
                   grouped_deltas, filenames, tree, run, harnessVars>>

\* variant: the index entry keeps the mode the path has at HEAD
NewIndexEntry_head_mode(path, blob) == IndexEntry(blob, HeadTree[path].mode)

\* IndexEntry(filename, blob_id, GIT_FILEMODE_BLOB)
NewIndexEntry(path, blob) == IndexEntry(blob, GIT_FILEMODE_BLOB)

\* self.repo.index.add(index_entry)
IndexAdd ==
    /\ pc = "index_add"
    /\ memIndex' = [memIndex EXCEPT ![blob_id[1]] = NewIndexEntry(blob_id[1], blob_id[2])]
    /\ filenames' = filenames \ {blob_id[1]}
    /\ blob_id' = <<>>
    /\ pc' = IF filenames' = {} THEN "index_write" ELSE "create_blob"
    /\ UNCHANGED <<repoVars, workTree, patchers, grouped_deltas, tree, run, harnessVars>>

\* self.repo.index.write()
IndexWrite ==
    /\ pc = "index_write"
    /\ index' = memIndex
    /\ pc' = "write_tree"
    /\ UNCHANGED <<commits, head, blobs, trees, workTree, memIndex, patchers,
                   grouped_deltas, filenames, blob_id, tree, run, harnessVars>>

\* tree = self.repo.index.write_tree()
WriteTree ==
    /\ pc = "write_tree"
    /\ trees' = trees \cup {memIndex}
    /\ tree' = memIndex
    /\ pc' = "create_commit"
    /\ UNCHANGED <<commits, head, blobs, index, workTree, memIndex, patchers,
                   grouped_deltas, filenames, blob_id, run, harnessVars>>

\* commit_datetime: the aware datetime of the committer time, as its wall
\* clock reading in the commit's zone and the zone's offset, in seconds
commit_datetime(commit) ==
    [wall |-> commit.commit_time + 60 * commit.commit_time_offset,
     utcoffset |-> 60 * commit.commit_time_offset]

\* a <= b on aware datetimes: the instants are compared
DatetimeLeq(a, b) == (a.wall - a.utcoffset) <= (b.wall - b.utcoffset)

\* sorted(cs, key=commit_datetime) of a list of commit ids: stable
SortedByDatetime(cs) ==
    LET key(c) == commit_datetime(commits[c])
        RECURSIVE ins(_, _)
        \* x goes behind every element whose key is not greater
        ins(x, sorted) ==
            IF sorted = <<>> THEN <<x>>
            ELSE IF DatetimeLeq(key(sorted[Len(sorted)]), key(x))
            THEN Append(sorted, x)
            ELSE Append(ins(x, SubSeq(sorted, 1, Len(sorted) - 1)), sorted[Len(sorted)])
        RECURSIVE go(_, _)
        go(k, sorted) == IF k > Len(cs) THEN sorted ELSE go(k + 1, ins(cs[k], sorted))
    IN  go(1, <<>>)

\* mutant: the first of the sorted commits, the oldest one
MainCommit_oldest(original_commits) ==
    IF Len(original_commits) > 1 THEN SortedByDatetime(original_commits)[1]
    ELSE original_commits[1]

\* main_commit of _commit
MainCommit(original_commits) ==
    IF Len(original_commits) > 1
    THEN SortedByDatetime(original_commits)[Len(original_commits)]
    ELSE original_commits[1]

\* mutant: the commit is created without a reference to update
create_commit_no_ref(author, committer, message, tree_id, parents) ==
    [commits |-> Append(commits,
                        [parents |-> parents, tree |-> tree_id, author |-> author,
                         committer |-> committer, commit_time |-> committer.time,
                         commit_time_offset |-> committer.offset, message |-> message]),
     head |-> head]

\* self.repo.create_commit("HEAD", author, committer, message, tree, parents):
\* the object database and HEAD afterwards
create_commit(author, committer, message, tree_id, parents) ==
    [commits |-> Append(commits,
                        [parents |-> parents, tree |-> tree_id, author |-> author,
                         committer |-> committer, commit_time |-> committer.time,
                         commit_time_offset |-> committer.offset, message |-> message]),
     head |-> Len(commits) + 1]

\* the rest of _commit, and the step of the loop of commit_changes
CreateCommit ==
    /\ pc = "create_commit"
    /\ LET original_commits == grouped_deltas[1].commits
           main_commit == commits[MainCommit(original_commits)]
           commit_message == [subject |-> main_commit.message.subject,
                              originals |-> original_commits]
           committer == Signature("user", 2000 + Len(commits), 0)
           made == create_commit(main_commit.author, committer, commit_message,
                                 tree, <<head>>)
       IN  /\ commits' = made.commits
           /\ head' = made.head
    /\ grouped_deltas' = Tail(grouped_deltas)
    /\ tree' = <<>>
    /\ pc' = IF Len(grouped_deltas) > 1 THEN "apply" ELSE "done"
    /\ UNCHANGED <<blobs, trees, index, workTree, memIndex, patchers, filenames,
                   blob_id, run, harnessVars>>

Running == pc \in {"apply", "create_blob", "index_add", "index_write", "write_tree",
                   "create_commit"}

\* the run is interrupted: the process and what it holds in memory are gone
Crash ==
    /\ Running
    /\ pc' = "crashed"
    /\ memIndex' = <<>>
    /\ patchers' = <<>>
    /\ grouped_deltas' = <<>>
    /\ filenames' = {}
    /\ blob_id' = <<>>
    /\ tree' = <<>>
    /\ run' = [run EXCEPT !.interrupted = TRUE]
    /\ UNCHANGED <<repoVars, workTree, harnessVars>>

(***************************************************************************)
(* The repositories the tool is run in: file a with up to MaxLen - 1 lines *)
(* at HEAD and up to MaxNew - 1 in the working tree, a second file b, and  *)
(* a staging area that is empty or holds one staged change of b.           *)
(***************************************************************************)
\* the committer times of the history: ascending, descending, all equal
TimeChoices ==
    {[c \in OriginIds |-> 1000 + 30 * c],
     [c \in OriginIds |-> 1000 + 30 * (NumOrigins - c)],
     [c \in OriginIds |-> 1000]}

\* b: not there, or a file of one line that came in with the first commit,
\* unmodified or with its line replaced
BCases ==
    {Absent} \cup [n : {1}, origins : {<<1>>}, mode : {GIT_FILEMODE_BLOB},
                   work : {<<1>>, <<0>>}]

\* the staged changes of b: none, or its index entry
StagedChanges(b) ==
    {<<>>}
    \cup (IF b = Absent
          THEN {[f \in {"b"} |-> IndexEntry(<<900>>, GIT_FILEMODE_BLOB)]}
          ELSE {[f \in {"b"} |-> IndexEntry(<<900>>, GIT_FILEMODE_BLOB)],
                [f \in {"b"} |-> None],
                [f \in {"b"} |-> IndexEntry(<<1>>, LinkMode)]})

Init ==
    /\ pc = "idle"
    /\ \E a \in FileCases(MaxLen - 1, MaxNew - 1, {GIT_FILEMODE_BLOB, ExecutableMode}),
          b \in BCases, times \in TimeChoices :
          \E staged \in StagedChanges(b) :
              InitRepo([f \in Files |-> IF f = "a" THEN a ELSE b], times, staged)

Next ==
    \/ Start
    \/ CommitApply
    \/ \E f \in Files : CreateBlob(f)
    \/ IndexAdd
    \/ IndexWrite
    \/ WriteTree
    \/ CreateCommit

Spec == Init /\ [][Next]_vars

NextCrash == Next \/ Crash

SpecCrash == Init /\ [][NextCrash]_vars

(***************************************************************************)
(* Properties of the Patcher specification.                                *)
(***************************************************************************)
AllApplied == pc = "patching" /\ Len(trace) = Len(deltaBlames)

\* C1: once apply() has been called on every micro-delta blames() derived
\* from the zero-context diff of the HEAD version against the working-tree
\* version, in whatever order, content() is the working-tree version.
C1_FaithfulReconstruction ==
    AllApplied => content(patchers["a"]) = workTree["a"].blob

\* three or more micro-deltas, applied in an order that is not the file's,
\* rebuilt the working-tree version
C1_Witness ==
    /\ AllApplied
    /\ Len(trace) >= 3
    /\ \E x \in 1..(Len(trace) - 1) : trace[x] > trace[x + 1]
    /\ content(patchers["a"]) = workTree["a"].blob

Covers(tuples, n) ==
    /\ UNION {Elems(t) : t \in Elems(tuples)} = 0..(n - 1)
    /\ \A x \in 0..(n - 1) :
          Cardinality({k \in 1..Len(tuples) : x \in Elems(tuples[k])}) = 1
    /\ \A k \in 1..Len(tuples) : Cardinality(Elems(tuples[k])) = Len(tuples[k])

\* C2: for every hunk delta (old_length O, new_length N, O + N > 0) the
\* mapping of _map_lines has every source index 0..O-1 in exactly one key
\* tuple and every target index 0..N-1 in exactly one value tuple.
C2_MapLinesCovers ==
    \A h \in 1..Len(hunkMaps) :
        LET hd == hunkMaps[h].hd
            m == hunkMaps[h].map
        IN  /\ hd.old_length + hd.new_length > 0
            /\ Covers([k \in 1..Len(m) |-> m[k][1]], hd.old_length)
            /\ Covers([k \in 1..Len(m) |-> m[k][2]], hd.new_length)

\* a hunk with one-to-one pairs and a tail that collapses several source
\* lines into the last target line was mapped
C2_Witness ==
    /\ pc = "patching"
    /\ \E h \in 1..Len(hunkMaps) :
          /\ hunkMaps[h].hd.new_length >= 2
          /\ hunkMaps[h].hd.old_length > hunkMaps[h].hd.new_length
          /\ Len(hunkMaps[h].map) = hunkMaps[h].hd.new_length

\* the Patcher that gets the deltas of the set S of positions of
\* deltaBlames applied in the order of the file
AppliedInFileOrder(S) ==
    LET RECURSIVE go(_, _)
        go(p, k) == IF k > Len(deltaBlames) THEN p
                    ELSE go(IF k \in S THEN apply(p, deltaBlames[k].delta) ELSE p, k + 1)
    IN  go(Patcher(_load_lines("a")), 1)

\* C3: the deltas of an origin group, applied on top of the groups applied
\* before, give the same content() in every order of application: the
\* content is the one the order of the file gives.
C3_OrderIndependent ==
    pc = "patching" =>
        content(patchers["a"]) = content(AppliedInFileOrder(Elems(trace)))

\* after a delta of another origin group, two deltas of one origin group
\* were applied, the later one of the file first
C3_Witness ==
    /\ pc = "patching"
    /\ Len(trace) >= 3
    /\ deltaBlames[trace[1]].commits # deltaBlames[trace[2]].commits
    /\ deltaBlames[trace[2]].commits = deltaBlames[trace[3]].commits
    /\ trace[2] > trace[3]

\* C4: apply(d) with d.old_start in the applied set changes nothing of the
\* Patcher: not its lines, not its offsets, not its applied set; so for
\* the same delta a second time, and so for another delta at that old_start.
C4_AppliedIsNoOp ==
    [][\A k \in 1..Len(deltaBlames) :
          ( /\ pc = "patching"
            /\ deltaBlames[k].delta.old_start \in patchers["a"]._applied
            /\ (HarnessApply(k) \/ HarnessApplyDuplicate(k)) )
          => patchers' = patchers]_vars

\* apply() met an applied old_start after all micro-deltas were applied
C4_Witness ==
    /\ AllApplied
    /\ reapplied
    /\ Len(trace) >= 2

(***************************************************************************)
(* Properties of the orchestrator (Spec, SpecCrash).                       *)
(***************************************************************************)
\* the commits the current run created
Created == (run.startLen + 1)..Len(commits)

\* C5: a run that completes adds one commit per distinct origin-commit set
\* among the micro-deltas of all modified files (none when nothing is
\* modified, one when every delta blames to the same set).
C5_OneCommitPerOriginSet ==
    pc = "done" =>
        Cardinality(Created) = Cardinality({b.commits : b \in run.blames})

\* a run over two modified files completed with several commits and more
\* micro-deltas than commits
C5_Witness ==
    /\ pc = "done"
    /\ run.modified = Files
    /\ Cardinality(Created) >= 2
    /\ Cardinality(run.blames) > Cardinality(Created)

\* C6: every commit the run created has exactly one parent, the commit HEAD
\* pointed to when it was created, and HEAD moved to it: the created commits
\* are a chain on top of the HEAD the run started from, HEAD at its tip.
C6_LinearChain ==
    /\ \A n \in Created :
          commits[n].parents = <<IF n = run.startLen + 1 THEN run.startHead ELSE n - 1>>
    /\ head = IF Created = {} THEN run.startHead ELSE Len(commits)

\* a run committed two groups or more
C6_Witness ==
    /\ pc = "done"
    /\ Cardinality(Created) >= 2
    /\ head = Len(commits)

\* some path differs between HEAD and the index
Staged == \E f \in Files : HeadTree[f] # index[f]

\* C7: a run started with a staged path fails with GitIndexNotEmpty and
\* writes nothing: no blob, no index entry, no tree, no commit; HEAD and the
\* working tree stay as they are.
C7_StagedRunWritesNothing ==
    [][(Idle /\ Staged /\ pc' # pc)
          => (pc' = "GitIndexNotEmpty"
              /\ UNCHANGED <<commits, head, blobs, trees, index, workTree>>)]_vars

\* the run failed on a staged change while a file had unstaged modifications
C7_Witness ==
    /\ pc = "GitIndexNotEmpty"
    /\ Staged
    /\ \E f \in Files :
          "GIT_STATUS_WT_MODIFIED" \in StatusFlags(HeadTree[f], index[f], workTree[f])
    /\ blobs = {} /\ trees = {} /\ Created = {}

\* C8: after a run that completes, every file that was unstaged-modified at
\* its start has its entry in the tree of HEAD and in the index equal to
\* the working-tree file, and a run after it creates no commit.
C8_NoUnstagedDiffRemains ==
    pc = "done" =>
        /\ \A f \in run.modified : HeadTree[f] = workTree[f] /\ index[f] = workTree[f]
        /\ (run.n > 1 => Created = {})

\* C9: after an interruption at any point of a run the next run passes the
\* staging-area pre-flight, and HEAD is a commit that was fully created:
\* its tree and the blobs of the files the run wrote are in the object
\* database.
C9_InterruptedRunLeavesNothingStaged ==
    pc = "crashed" =>
        /\ ~IndexNotEmpty
        /\ \A n \in Created : commits[n].tree \in trees
        /\ head = IF Created = {} THEN run.startHead ELSE Len(commits)

\* C10: the author of every created commit is the author of an origin
\* commit of its group that no other origin commit of the group is later
\* than, by committer time.
C10_AuthorOfLatestOrigin ==
    \A n \in (NumOrigins + 1)..Len(commits) :
        \E m \in Elems(commits[n].message.originals) :
            /\ commits[n].author = commits[m].author
            /\ \A o \in Elems(commits[n].message.originals) :
                  commits[o].commit_time <= commits[m].commit_time

\* a commit was created for a group of two origin commits of which the one
\* with the smaller id has the later committer time, and earlier wall clock
C10_Witness ==
    \E n \in (NumOrigins + 1)..Len(commits) :
        /\ commits[n].message.originals = <<1, 2>>
        /\ commits[1].commit_time > commits[2].commit_time
        /\ commits[n].author = commits[1].author

\* the lines with the edits of a set of deltas made, each at the HEAD lines
\* it names: the old lines old_start.. give way to the new lines, and new
\* lines with no old lines go in behind the line old_start
Edited(lines, deltas) ==
    LET RECURSIVE ed(_, _)
        ed(ls, T) ==
            IF T = {} THEN ls
            ELSE LET d == CHOOSE x \in T : \A y \in T : y.old_start <= x.old_start
                     kept == IF d.old_length = 0 THEN d.old_start ELSE d.old_start - 1
                 IN  ed(SubSeq(ls, 1, kept) \o d.new_lines
                            \o SubSeq(ls, kept + d.old_length + 1, Len(ls)),
                        T \ {d})
    IN  ed(lines, deltas)

\* the micro-deltas of the path f in the groups 1..k of the run
DeltasUpTo(f, k) ==
    {d \in UNION {Elems(run.groups[g].deltas) : g \in 1..Min(k, Len(run.groups))} :
        d.filename = f}

\* C11: in the tree of the k-th commit a run created, every modified file
\* holds its content at the HEAD the run started from with the micro-deltas
\* of the groups 1..k made and no other; a file the k-th group does not
\* touch holds what it held in the commit before.
C11_TreeHoldsGroupsUpToK ==
    \A n \in Created : \A f \in run.modified :
        /\ commits[n].tree[f].blob
              = Edited(commits[run.startHead].tree[f].blob, DeltasUpTo(f, n - run.startLen))
        /\ (DeltasUpTo(f, n - run.startLen) = DeltasUpTo(f, n - run.startLen - 1)
               => commits[n].tree[f].blob = commits[commits[n].parents[1]].tree[f].blob)

\* the first commit of a run of several groups holds a file with the edits
\* of the first group only, another commit leaves a modified file as the
\* commit before has it
C11_Witness ==
    /\ pc = "done"
    /\ Len(run.groups) >= 2
    /\ \E f \in run.modified :
          /\ DeltasUpTo(f, 1) # {}
          /\ DeltasUpTo(f, 1) # DeltasUpTo(f, Len(run.groups))
          /\ commits[run.startLen + 1].tree[f].blob # workTree[f].blob
          /\ commits[run.startLen + 1].tree[f].blob # commits[run.startHead].tree[f].blob
    /\ \E n \in Created, f \in run.modified :
          /\ DeltasUpTo(f, n - run.startLen) = DeltasUpTo(f, n - run.startLen - 1)
          /\ commits[n].tree[f].blob # workTree[f].blob

\* C12: every index entry _commit writes for a touched file has the mode
\* the file has on the HEAD side of its diff: in every created commit a
\* file touched by a group up to it has the mode it has in the tree of the
\* HEAD the run started from.
C12_TouchedFileKeepsMode ==
    \A n \in Created : \A f \in Files :
        DeltasUpTo(f, n - run.startLen) # {}
            => commits[n].tree[f].mode = commits[run.startHead].tree[f].mode


(***************************************************************************)
(* The origin of a pure insertion (SpecPatcher).                           *)
(***************************************************************************)
\* the position of a line in a list of lines that holds it once
PosOf(ls, line) == CHOOSE i \in 1..Len(ls) : ls[i] = line

\* the micro-deltas with no old lines that the Patcher has applied
AppliedInsertions ==
    {k \in Elems(trace) : deltaBlames[k].delta.old_length = 0}

\* the position behind the new lines of the k-th micro-delta in content()
Below(k) ==
    LET d == deltaBlames[k].delta
    IN  PosOf(content(patchers["a"]), d.new_lines[d.new_length]) + 1

\* the position before the new lines of the k-th micro-delta in content()
Above(k) == PosOf(content(patchers["a"]), deltaBlames[k].delta.new_lines[1]) - 1

DeltaLengths(d) ==
    /\ Len(d.old_lines) = d.old_length
    /\ Len(d.new_lines) = d.new_length
    /\ (d.old_length > 0 \/ d.new_length > 0)

\* C14: every micro-delta blames() emits for a hunk of the zero-context
\* diff against HEAD has len(old_lines) = old_length, len(new_lines) =
\* new_length, old_length > 0 or new_length > 0, and old_start >= 1, and
\* every line blames() looks up for it is at or behind the start of the
\* first blame run.
C14_DeltaInvariants ==
    pc = "patching" =>
        \A k \in 1..Len(deltaBlames) :
            LET d == deltaBlames[k].delta
                hb == _load_blame(BlameHunks("a"))
            IN  /\ DeltaLengths(d)
                /\ d.old_start >= 1
                /\ \A line \in BlameRange(d) : line >= hb._blame_starts[1]

====
